---- MODULE Spec2Model ----
(***************************************************************************)
(* The asynchronous job pipeline of imagegen's web backend: the SQLite     *)
(* backed Store (jobs, runs, run_images, work_items), the enqueue path     *)
(* (Store.CreateGenerateJob), prompt edits (Store.UpdateWorkItemPrompt)    *)
(* and the background worker (Server.jobWorkerLoop / processNextJob).      *)
(*                                                                         *)
(* One atomic step of the model is one acquisition of Store.mu (one        *)
(* sqlite3 statement, execSQL / queryJSON) together with the local         *)
(* computation that follows it, or one external effect of the worker       *)
(* (file system preparation, the generation subprocess).                   *)
(***************************************************************************)
EXTENDS Integers, Sequences, FiniteSets, TLC

VARIABLES
    workItems,  \* table work_items: id -> row
    jobs,       \* table jobs: sequence indexed by the AUTOINCREMENT id
    runs,       \* table runs: sequence indexed by the AUTOINCREMENT id
    runImages,  \* table run_images: sequence indexed by the AUTOINCREMENT id
    fs,         \* output directories: run id -> the directory, or NoDir
    tmpDirs,    \* worker -> the temporary brand directory of its cycle
    pc,         \* worker -> position inside processNextJob
    loc,        \* worker -> local variables of processNextJob
    faults,     \* number of sqlite3 invocations and file-system calls that failed
    claimLog,   \* job ids returned by ClaimNextQueuedJob, in order of return
    starts,     \* job id -> number of times its generation subprocess was started
    lastCycle,  \* worker -> what its last processNextJob that claimed a job did
    req,        \* the CreateGenerateJob call in flight or last returned
    claimedPrompt, \* job id -> work item prompt its claim read, <<>> before that
    crashes,    \* number of times the process was killed and started again
    orphans,    \* job ids that were running when the process was killed
    mu,         \* Store.mu: "free", or "held" by a statement
    probe,      \* a ClaimNextQueuedJob row on its own: the joined rows, the result
    poll,       \* the GET /api/jobs/{jobID} request in flight or last answered
    client      \* the browser page that polls a job: its poller's position

vars == <<workItems, jobs, runs, runImages, fs, tmpDirs, pc, loc,
          faults, claimLog, starts, lastCycle, req, claimedPrompt,
          crashes, orphans, mu, probe, poll, client>>

(***************************************************************************)
(* Bounds of the model.                                                    *)
(***************************************************************************)
MaxJobs == 2
MaxFaults == 1
MaxCrashes == 1
MaxRequests == 3

Workers == {"w1", "w2"}
MainWorker == "w1"

(***************************************************************************)
(* Text. A string is a sequence of tokens; "sp" and "nl" are white space.  *)
(***************************************************************************)
IsSpace(c) == c \in {"sp", "nl"}

RECURSIVE TrimLeft(_)
TrimLeft(s) ==
    IF s = <<>> THEN <<>>
    ELSE IF IsSpace(Head(s)) THEN TrimLeft(Tail(s)) ELSE s

RECURSIVE TrimRight(_)
TrimRight(s) ==
    IF s = <<>> THEN <<>>
    ELSE IF IsSpace(s[Len(s)]) THEN TrimRight(SubSeq(s, 1, Len(s) - 1)) ELSE s

TrimSpace(s) == TrimRight(TrimLeft(s))

\* strings.Contains
Contains(s, sub) ==
    \E i \in 0..(Len(s) - Len(sub)) : SubSeq(s, i + 1, i + Len(sub)) = sub

(***************************************************************************)
(* Values.                                                                 *)
(***************************************************************************)
Null == 0       \* SQL NULL in an integer or timestamp column
Set == 1        \* a started_at / finished_at column holding a timestamp
\* A directory that does not exist, and one holding the given entries.
NoDir == [exists |-> FALSE, entries |-> {}]
Dir(entries) == [exists |-> TRUE, entries |-> entries]
\* No temporary brand directory: none was made, or os.RemoveAll removed it.
NoBrandDir == [exists |-> FALSE, files |-> {}]

Root == <<"root">>          \* Store.Root, as path components
ProjectSlug == "demo"
WorkItemIDs == {1, 2}
ItemSlug(wi) == IF wi = 1 THEN "icon" ELSE "logo"

\* A column of a LEFT JOINed row: NULL, or a value.
NullCol(zero) == [null |-> TRUE, v |-> zero]
Col(v) == [null |-> FALSE, v |-> v]

\* LEFT JOIN brands b ON b.id = id: the brand's columns, NULL without a match
LeftJoinBrand(brands, id) ==
    IF id \in DOMAIN brands
    THEN [slug |-> Col(brands[id].slug), content |-> Col(brands[id].content)]
    ELSE [slug |-> NullCol(""), content |-> NullCol(<<>>)]

\* COALESCE(a, b, c), c a literal
Coalesce(a, b, c) == IF ~a.null THEN a.v ELSE IF ~b.null THEN b.v ELSE c

\* Mutant: the project's default brand is looked at first.
ResolveBrand_DefaultFirst(brands, brandID, defaultBrandID) ==
    LET bw == LeftJoinBrand(brands, brandID)
        bp == LeftJoinBrand(brands, defaultBrandID) IN
    [brand_slug |-> Coalesce(bp.slug, bw.slug, ""),
     brand_content |-> Coalesce(bp.content, bw.content, <<>>)]

\* The brand columns of ClaimNextQueuedJob's SELECT: bw is the brand of
\* work_items.brand_id, bp the brand of projects.default_brand_id.
ResolveBrand(brands, brandID, defaultBrandID) ==
    LET bw == LeftJoinBrand(brands, brandID)
        bp == LeftJoinBrand(brands, defaultBrandID) IN
    [brand_slug |-> Coalesce(bw.slug, bp.slug, ""),
     brand_content |-> Coalesce(bw.content, bp.content, <<>>)]

\* The brands of the running program: work item 1 overrides the brand, work
\* item 2 does not, and the project has no default brand.
Brands == << [slug |-> "acme", content |-> <<"brand">>] >>
WorkItemBrandID(wi) == IF wi = 1 THEN 1 ELSE Null
ProjectDefaultBrandID == Null

BrandContentOf(wi) ==
    ResolveBrand(Brands, WorkItemBrandID(wi), ProjectDefaultBrandID).brand_content

InitialPrompt == <<"p">>
\* (slug, prompt) pairs passed to UpdateWorkItemPrompt
PromptEdits ==
    { <<"icon", <<"sp", "q", "sp">>>>, <<"icon", <<"sp">>>>, <<"missing", <<"q">>>> }

\* GenerateJobPayload values a caller passes to CreateGenerateJob.
EmptyPayload ==
    [model |-> "", count |-> 0, output_format |-> "", image_size |-> "",
     aspect_ratio |-> "", adjustment |-> <<>>]
FullPayload ==
    [model |-> "google", count |-> 2, output_format |-> "webp",
     image_size |-> "2K", aspect_ratio |-> "1:1", adjustment |-> <<"sp", "adj">>]
\* (slug, payload) pairs passed to CreateGenerateJob
Enqueues ==
    { <<"icon", EmptyPayload>>, <<"logo", FullPayload>>, <<"missing", EmptyPayload>> }

\* Directory entries the subprocess may leave in the output directory, in the
\* order os.ReadDir lists them (sorted by filename). name = <<stem, extension>>.
Pool ==
    << [name |-> <<"a", ".png">>,  isDir |-> FALSE],
       [name |-> <<"b", ".JPG">>,  isDir |-> FALSE],
       [name |-> <<"c", ".txt">>,  isDir |-> FALSE],
       [name |-> <<"d", ".webp">>, isDir |-> TRUE] >>
\* What a run of the subprocess may do: its exit, its combined output and the
\* entries it leaves in the output directory.
SubprocessResults ==
    { [exit |-> "ok", output |-> <<"done", "nl">>, wrote |-> {1, 2, 3, 4}],
      [exit |-> "exit1", output |-> <<"sp", "boom", "nl">>, wrote |-> {1, 2, 3, 4}],
      [exit |-> "timeout", output |-> <<>>, wrote |-> {}] }

Terminal == {"succeeded", "failed"}

\* json.Marshal / json.Unmarshal of GenerateJobPayload
Marshal(p) ==
    <<"json", p.model, p.count, p.output_format, p.image_size, p.aspect_ratio,
      p.adjustment>>
Unmarshal(raw) ==
    [model |-> raw[2], count |-> raw[3], output_format |-> raw[4],
     image_size |-> raw[5], aspect_ratio |-> raw[6], adjustment |-> raw[7]]

\* Mutant: the worker asks for two images at least, as the form handler does.
WorkerDefaults_CountTwo(p) ==
    [p EXCEPT !.count = IF p.count < 2 THEN 2 ELSE p.count,
              !.model = IF p.model = "" THEN "both" ELSE p.model,
              !.output_format = IF p.output_format = "" THEN "png" ELSE p.output_format,
              !.image_size = IF p.image_size = "" THEN "1K" ELSE p.image_size]

\* The defaulting processNextJob applies to the claimed job's payload.
WorkerDefaults(p) ==
    [p EXCEPT !.count = IF p.count < 1 THEN 1 ELSE p.count,
              !.model = IF p.model = "" THEN "both" ELSE p.model,
              !.output_format = IF p.output_format = "" THEN "png" ELSE p.output_format,
              !.image_size = IF p.image_size = "" THEN "1K" ELSE p.image_size]

\* The defaulting CreateGenerateJob applies before it stores the payload.
WithDefaults(p) ==
    [p EXCEPT !.count = IF p.count < 1 THEN 1 ELSE p.count,
              !.model = IF p.model = "" THEN "both" ELSE p.model,
              !.output_format = IF p.output_format = "" THEN "png" ELSE p.output_format,
              !.image_size = IF p.image_size = "" THEN "1K" ELSE p.image_size]

(***************************************************************************)
(* The Store's statements, as functions of the tables.                     *)
(***************************************************************************)
JobIDs == 1..Len(jobs)
RunIDs == 1..Len(runs)

\* Mutant: a slug that matches no row resolves to the first work item.
WorkItemBySlug_FirstRow(slug) ==
    IF \E wi \in WorkItemIDs : ItemSlug(wi) = slug
    THEN CHOOSE wi \in WorkItemIDs : ItemSlug(wi) = slug
    ELSE 1

\* GetWorkItem: the id of the work item with this slug, or Null
WorkItemBySlug(slug) ==
    IF \E wi \in WorkItemIDs : ItemSlug(wi) = slug
    THEN CHOOSE wi \in WorkItemIDs : ItemSlug(wi) = slug
    ELSE Null

\* Mutant: the id of the newest row is handed out again.
NextJobID_Reused(js) == IF js = <<>> THEN 1 ELSE js[Len(js)].id

\* id INTEGER PRIMARY KEY AUTOINCREMENT: one more than the largest id the
\* table ever held; no statement deletes a job, so that is the row count.
NextJobID(js) == Len(js) + 1

\* Mutant: the INSERT also puts the work item's older jobs back in the queue.
InsertJob_RequeuesOlder(js, wi, payload, t) ==
    Append([j \in 1..Len(js) |->
              IF js[j].work_item_id = wi
              THEN [js[j] EXCEPT !.status = "queued", !.error_message = <<>>,
                                 !.started_at = Null, !.finished_at = Null]
              ELSE js[j]],
           [id |-> NextJobID(js), work_item_id |-> wi, run_id |-> Null,
            status |-> "queued", payload_json |-> Marshal(payload),
            error_message |-> <<>>, created_at |-> t, started_at |-> Null,
            finished_at |-> Null])

\* INSERT INTO jobs (work_item_id, status, payload_json, created_at)
InsertJob(js, wi, payload, t) ==
    Append(js, [id |-> NextJobID(js), work_item_id |-> wi, run_id |-> Null, status |-> "queued",
                payload_json |-> Marshal(payload), error_message |-> <<>>,
                created_at |-> t, started_at |-> Null, finished_at |-> Null])

\* Mutant: the WHERE clause names a status no job ever has.
OldestQueued_None(js) == {}

\* Mutant: WHERE j.status IN ('queued', 'running').
OldestQueued_Unfinished(js) ==
    { j \in 1..Len(js) :
        /\ js[j].status \in {"queued", "running"}
        /\ \A k \in 1..Len(js) :
              js[k].status \in {"queued", "running"} =>
                  js[j].created_at <= js[k].created_at }

\* Mutant: ORDER BY j.created_at DESC.
OldestQueued_Newest(js) ==
    { j \in 1..Len(js) :
        /\ js[j].status = "queued"
        /\ \A k \in 1..Len(js) :
              js[k].status = "queued" => js[j].created_at >= js[k].created_at }

\* SELECT ... WHERE j.status = 'queued' ORDER BY j.created_at ASC LIMIT 1:
\* the rows the statement may return first. Rows with equal created_at are in
\* no order SQL defines.
OldestQueued(js) ==
    { j \in 1..Len(js) :
        /\ js[j].status = "queued"
        /\ \A k \in 1..Len(js) :
              js[k].status = "queued" => js[j].created_at <= js[k].created_at }

\* Mutant: the UPDATE changes no row.
UpdateClaim_NoRow(js, id) == js

\* Mutant: the UPDATE without "id = X AND": every queued job becomes running.
UpdateClaim_AllQueued(js, id) ==
    [k \in DOMAIN js |->
        IF js[k].status = "queued"
        THEN [js[k] EXCEPT !.status = "running", !.started_at = Set]
        ELSE js[k]]

\* UPDATE jobs SET status = 'running', started_at = now
\* (of started_at and finished_at, and of a run's created_at, the model keeps
\* whether they are set)
\* WHERE id = X AND status = 'queued'
UpdateClaim(js, id) ==
    IF js[id].status = "queued"
    THEN [js EXCEPT ![id].status = "running", ![id].started_at = Set]
    ELSE js

\* Mutant: the runs table without the UNIQUE constraint on job_id.
RunJobIDFree_NoUnique(rs, jobID) == TRUE

\* runs.job_id is UNIQUE
RunJobIDFree(rs, jobID) == \A r \in 1..Len(rs) : rs[r].job_id # jobID

\* Mutant: the snapshot column filled from the work item's live prompt.
InsertRun_LivePrompt(rs, jobID, wi, promptSnapshot, settingsJSON) ==
    Append(rs, [job_id |-> jobID, work_item_id |-> wi,
                prompt_snapshot |-> workItems[wi].prompt,
                settings_json |-> settingsJSON, status |-> "running",
                error_message |-> <<>>, created_at |-> Set,
                finished_at |-> Null])

\* INSERT INTO runs (...) VALUES (..., 'running', now) RETURNING id
InsertRun(rs, jobID, wi, promptSnapshot, settingsJSON) ==
    Append(rs, [job_id |-> jobID, work_item_id |-> wi,
                prompt_snapshot |-> promptSnapshot,
                settings_json |-> settingsJSON, status |-> "running",
                error_message |-> <<>>, created_at |-> Set,
                finished_at |-> Null])

\* Mutant: the UPDATE without its WHERE id = J.
SetJobRunID_NoWhere(js, jobID, runID) ==
    [j \in 1..Len(js) |-> [js[j] EXCEPT !.run_id = runID]]

\* UPDATE jobs SET run_id = R WHERE id = J
SetJobRunID(js, jobID, runID) == [js EXCEPT ![jobID].run_id = runID]

MarkRunSucceeded(rs, runID) ==
    [rs EXCEPT ![runID].status = "succeeded", ![runID].finished_at = Set]

\* Mutant: the run is left as it is.
MarkRunFailed_NoRow(rs, runID, message) == rs

MarkRunFailed(rs, runID, message) ==
    [rs EXCEPT ![runID].status = "failed",
               ![runID].error_message = TrimSpace(message),
               ![runID].finished_at = Set]

\* Mutant: the UPDATE without its WHERE id = J.
MarkJobSucceeded_NoWhere(js, jobID) ==
    [k \in DOMAIN js |-> [js[k] EXCEPT !.status = "succeeded", !.finished_at = Set]]

MarkJobSucceeded(js, jobID) ==
    [js EXCEPT ![jobID].status = "succeeded", ![jobID].finished_at = Set]

MarkJobFailed(js, jobID, message) ==
    [js EXCEPT ![jobID].status = "failed",
               ![jobID].error_message = TrimSpace(message),
               ![jobID].finished_at = Set]

\* INSERT INTO run_images (run_id, filename, rel_path, format, created_at)
\* SELECT ... FROM jobs j ... WHERE j.id = J, and jobRow.toJob
GetJob(js, jobID) ==
    [id |-> jobID, status |-> js[jobID].status, run_id |-> js[jobID].run_id,
     started_at |-> js[jobID].started_at, finished_at |-> js[jobID].finished_at]

\* The limits ListJobs is called with: 0 stands for the default of 50.
Limits == {0, 1}

\* Store.ListJobs(limit): the rows ORDER BY j.created_at DESC LIMIT n. The
\* order among equal created_at is not defined, so this is the set of the
\* results the statement may return, each a sequence of Job values.
ListJobs(js, limit) ==
    LET n == IF limit <= 0 THEN 50 ELSE limit
        k == IF Len(js) < n THEN Len(js) ELSE n
        picks == { f \in [1..k -> 1..Len(js)] :
                     /\ \A a, b \in 1..k : a < b =>
                           /\ f[a] # f[b]
                           /\ js[f[a]].created_at >= js[f[b]].created_at
                     /\ \A a \in 1..k, x \in 1..Len(js) :
                           (\A b \in 1..k : f[b] # x) =>
                               js[f[a]].created_at >= js[x].created_at }
    IN  { [a \in 1..k |-> GetJob(js, f[a])] : f \in picks }

\* Slugify, on the names the lists are asked for: lower case, every run of
\* other characters a dash, dashes trimmed at both ends.
Slugify(input) ==
    CASE input = "Icon" -> "icon"
      [] input = "Logo!" -> "logo"
      [] OTHER -> input

\* The rows of one LIMIT n query over the eligible jobs, newest first.
ListRows(js, eligible, n) ==
    LET k == IF Cardinality(eligible) < n THEN Cardinality(eligible) ELSE n
        picks == { f \in [1..k -> eligible] :
                     /\ \A a, b \in 1..k : a < b =>
                           /\ f[a] # f[b]
                           /\ js[f[a]].created_at >= js[f[b]].created_at
                     /\ \A a \in 1..k, x \in eligible :
                           (\A b \in 1..k : f[b] # x) =>
                               js[f[a]].created_at >= js[x].created_at }
    IN  { [a \in 1..k |-> GetJob(js, f[a])] : f \in picks }

\* Mutant: the WHERE clause on the slugs is missing.
ListJobsForWorkItem_AllItems(js, projectSlug, itemSlug, limit) ==
    ListRows(js, 1..Len(js), IF limit <= 0 THEN 10 ELSE limit)

\* Store.ListJobsForWorkItem(projectSlug, itemSlug, limit): the rows WHERE
\* p.slug AND w.slug match, ORDER BY j.created_at DESC LIMIT n; the set of
\* the results the statement may return.
ListJobsForWorkItem(js, projectSlug, itemSlug, limit) ==
    ListRows(js,
             { j \in 1..Len(js) :
                 /\ ProjectSlug = Slugify(projectSlug)
                 /\ ItemSlug(js[j].work_item_id) = Slugify(itemSlug) },
             IF limit <= 0 THEN 10 ELSE limit)

\* Mutant: INSERT OR REPLACE keyed by run_id: a run keeps its last image only.
RECURSIVE AddRunImage_ReplacesRun(_, _, _, _, _)
AddRunImage_ReplacesRun(ris, runID, filename, relPath, format) ==
    IF ris # <<>> /\ ris[Len(ris)].run_id = runID
    THEN AddRunImage_ReplacesRun(SubSeq(ris, 1, Len(ris) - 1), runID, filename,
                                 relPath, format)
    ELSE Append(ris, [run_id |-> runID, filename |-> filename,
                      rel_path |-> relPath, format |-> format])

\* Store.AddRunImage: INSERT INTO run_images
AddRunImage(ris, runID, filename, relPath, format) ==
    Append(ris, [run_id |-> runID, filename |-> filename,
                 rel_path |-> relPath, format |-> format])

\* ListJobImages: the run_images rows joined to the run of a job
ListJobImages(jobID) ==
    { i \in 1..Len(runImages) :
        \E r \in RunIDs : runs[r].job_id = jobID /\ runImages[i].run_id = r }

\* Mutant: one output directory per work item, without the run-%d component.
WorkItemImagesDir_PerItem(projectSlug, itemSlug, runID) ==
    Root \o <<"images", projectSlug, itemSlug>>

\* Store.WorkItemImagesDir
WorkItemImagesDir(projectSlug, itemSlug, runID) ==
    Root \o <<"images", projectSlug, itemSlug, <<"run", runID>>>>

\* Store.RelPath: filepath.Rel(s.Root, abs); <<ok, rel>>
RelPath(abs) ==
    IF Len(abs) >= Len(Root) /\ SubSeq(abs, 1, Len(Root)) = Root
    THEN <<TRUE, SubSeq(abs, Len(Root) + 1, Len(abs))>>
    ELSE <<FALSE, <<>>>>

\* strings.ToLower(filepath.Ext(name))
Ext(name) == name[2]
ToLower(ext) ==
    CASE ext = ".JPG" -> ".jpg"
      [] ext = ".PNG" -> ".png"
      [] OTHER -> ext
ImageExts == {".png", ".jpg", ".jpeg", ".webp", ".ico"}
\* strings.TrimPrefix(ext, ".")
TrimDot(ext) ==
    CASE ext = ".png" -> "png"
      [] ext = ".jpg" -> "jpg"
      [] ext = ".jpeg" -> "jpeg"
      [] ext = ".webp" -> "webp"
      [] ext = ".ico" -> "ico"
      [] OTHER -> ext

\* Mutant: the extension compared without strings.ToLower.
IsHarvested_CaseSensitive(e) == ~e.isDir /\ Ext(e.name) \in ImageExts

\* The entries of a directory listing processNextJob records: not a
\* directory, and a recognised extension.
IsHarvested(e) == ~e.isDir /\ ToLower(Ext(e.name)) \in ImageExts

RECURSIVE Listing(_, _)
\* os.ReadDir: the entries of a directory, sorted by filename
Listing(dir, i) ==
    IF i > Len(Pool) THEN <<>>
    ELSE (IF i \in dir THEN <<Pool[i]>> ELSE <<>>) \o Listing(dir, i + 1)

RECURSIVE Harvestable(_)
Harvestable(files) ==
    IF files = <<>> THEN <<>>
    ELSE (IF IsHarvested(Head(files)) THEN <<Head(files)>> ELSE <<>>)
         \o Harvestable(Tail(files))

(***************************************************************************)
(* Initial state: NewStore has run the migrations, the project and its two *)
(* work items exist, no job has been enqueued, every worker is between two *)
(* cycles.                                                                 *)
(***************************************************************************)
NoLoc ==
    [job_id |-> Null, work_item_id |-> Null, project_slug |-> "",
     work_item_slug |-> "", prompt |-> <<>>, brand_content |-> <<>>,
     payload_json |-> <<>>, payload |-> EmptyPayload, runPrompt |-> <<>>,
     runID |-> Null, msg |-> <<>>,
     files |-> <<>>, outcome |-> "none", output |-> <<>>, args |-> <<>>,
     ignoredErr |-> FALSE]

NoCycle ==
    [job |-> Null, run |-> Null, outcome |-> "none", output |-> <<>>,
     ignoredErr |-> FALSE]

\* Job{}: the zero value CreateGenerateJob returns along with an error.
NoJob ==
    [id |-> Null, status |-> "", run_id |-> Null, started_at |-> Null,
     finished_at |-> Null]

\* No CreateGenerateJob call has been made. result is "ok" for a nil error,
\* job the Job value returned.
NoReq ==
    [pc |-> "none", slug |-> "", payload |-> EmptyPayload, id |-> Null,
     result |-> "none", job |-> NoJob]

\* No status request has been made. code is the HTTP status of the response,
\* images the run_images ids in it.
NoPoll ==
    [pc |-> "none", job_id |-> Null, status |-> "", images |-> {}, code |-> 0]

\* No page that polls a job is open. page is "item" (the work item page, after
\* its form was submitted) or "detail" (the job page); initial is the job
\* status the page starts from, last the last answer its poller handled.
NoClient ==
    [page |-> "", pc |-> "none", job_id |-> Null, initial |-> "", requests |-> 0,
     last |-> ""]

\* No row is looked at on its own.
NoProbe ==
    [pc |-> "none", brands |-> <<>>, brand_id |-> Null, default_brand_id |-> Null,
     brand_slug |-> "", brand_content |-> <<>>]

InitTables ==
    /\ workItems = [wi \in WorkItemIDs |-> [prompt |-> InitialPrompt]]
    /\ jobs = <<>>
    /\ runs = <<>>
    /\ runImages = <<>>
    /\ fs = <<>>
    /\ tmpDirs = [w \in Workers |-> NoBrandDir]
    /\ pc = [w \in Workers |-> "idle"]
    /\ loc = [w \in Workers |-> NoLoc]
    /\ faults = 0
    /\ claimLog = <<>>
    /\ starts = <<>>
    /\ lastCycle = [w \in Workers |-> NoCycle]
    /\ req = NoReq
    /\ claimedPrompt = <<>>
    /\ crashes = 0
    /\ orphans = {}
    /\ mu = "free"
    /\ poll = NoPoll
    /\ client = NoClient

Init == InitTables /\ probe = NoProbe

\* Whether a sqlite3 invocation succeeds (execSQL / queryJSON return nil).
StmtResults == IF faults < MaxFaults THEN {TRUE, FALSE} ELSE {TRUE}

\* Mutant: Unlock is called after the error return, not deferred.
Unlock_NotDeferred(ok) == IF ok THEN "free" ELSE "held"

\* defer s.mu.Unlock(): runs when execSQL / queryJSON returns, error or not
Unlock(ok) == "free"

\* One execSQL / queryJSON call: s.mu.Lock() returns once the mutex is free,
\* sqlite3 runs, and the deferred Unlock runs on return.
Statement(ok) == mu = "free" /\ mu' = Unlock(ok)

Fault(ok) == Statement(ok) /\ faults' = IF ok THEN faults ELSE faults + 1

\* processNextJob returns: the worker goes back to jobWorkerLoop's ticker.
\* ok is the result of the last store write, whose error is discarded.
Return(w, outcome, ok) ==
    /\ pc' = [pc EXCEPT ![w] = "idle"]
    /\ loc' = [loc EXCEPT ![w] = NoLoc]
    /\ lastCycle' = [lastCycle EXCEPT ![w] =
          [job |-> loc[w].job_id, run |-> loc[w].runID, outcome |-> outcome,
           output |-> loc[w].output, ignoredErr |-> loc[w].ignoredErr \/ ~ok]]

(***************************************************************************)
(* The clock and the request handlers.                                     *)
(***************************************************************************)
\* The instants at which the next INSERT INTO jobs may run: strftime('now')
\* has millisecond resolution, so the instant of the previous insert again, or
\* a later one. Only the order of created_at values is ever read.
LastCreatedAt == IF jobs = <<>> THEN 0 ELSE jobs[Len(jobs)].created_at
InsertTimes == {LastCreatedAt, LastCreatedAt + 1} \ {0}

\* Store.CreateGenerateJob(projectSlug, itemSlug, payload), up to its INSERT:
\* GetWorkItem, the defaults, INSERT INTO jobs ... RETURNING id.
CreateGenerateJob(slug, payload, t) ==
    /\ Len(jobs) < MaxJobs
    /\ req.pc # "get"
    /\ LET wi == WorkItemBySlug(slug)
           call == [NoReq EXCEPT !.slug = slug, !.payload = payload] IN
         \E ok \in StmtResults :
            /\ Fault(ok)
            /\ IF ok /\ wi # Null
               THEN /\ jobs' = InsertJob(jobs, wi, WithDefaults(payload), t)
                    /\ starts' = Append(starts, 0)
                    /\ claimedPrompt' = Append(claimedPrompt, <<>>)
                    /\ req' = [call EXCEPT !.pc = "get", !.id = Len(jobs) + 1]
               ELSE /\ UNCHANGED <<jobs, starts, claimedPrompt>>
                    /\ req' = [call EXCEPT !.pc = "done",
                                 !.result = IF ok THEN "notFound"   \* os.ErrNotExist
                                                  ELSE "storeError"]
    /\ UNCHANGED <<workItems, runs, runImages, fs, tmpDirs, pc, loc,
                   claimLog, lastCycle, crashes, orphans, probe, poll, client>>

\* Store.CreateGenerateJob, its last statement: return s.GetJob(rows[0].ID)
CreateGenerateJobReturn ==
    /\ req.pc = "get"
    /\ \E ok \in StmtResults :
         /\ Fault(ok)
         /\ req' = [req EXCEPT !.pc = "done",
                               !.result = IF ok THEN "ok" ELSE "storeError",
                               !.job = IF ok THEN GetJob(jobs, req.id) ELSE NoJob]
    /\ UNCHANGED <<workItems, jobs, runs, runImages, fs, tmpDirs, pc, loc,
                   claimLog, starts, lastCycle, claimedPrompt, crashes, orphans, probe, poll, client>>

\* Store.UpdateWorkItemPrompt(projectSlug, itemSlug, prompt)
UpdateWorkItemPrompt(slug, prompt) ==
    /\ LET wi == WorkItemBySlug(slug)
           p == TrimSpace(prompt) IN
         IF p = <<>> \/ wi = Null
         THEN UNCHANGED <<workItems, faults, mu>>   \* "prompt is required" / no row
         ELSE \E ok \in StmtResults :
                /\ Fault(ok)
                /\ workItems' = IF ok THEN [workItems EXCEPT ![wi].prompt = p]
                                      ELSE workItems
    /\ UNCHANGED <<jobs, runs, runImages, fs, tmpDirs, pc, loc,
                   claimLog, starts, lastCycle, req, claimedPrompt, crashes,
                   orphans, probe, poll, client>>

(***************************************************************************)
(* Server.processNextJob, one store statement or external effect per step. *)
(***************************************************************************)
\* ClaimNextQueuedJob, first statement: the SELECT of the oldest queued job.
ClaimSelect(w) ==
    /\ pc[w] = "idle"
    /\ \E ok \in StmtResults :
         /\ Fault(ok)
         /\ IF ~ok \/ OldestQueued(jobs) = {}
            THEN /\ pc' = pc                       \* (nil, err) or (nil, nil)
                 /\ loc' = loc
                 /\ lastCycle' = lastCycle
                 /\ claimedPrompt' = claimedPrompt
            ELSE \E j \in OldestQueued(jobs) :
                   /\ claimedPrompt' = [claimedPrompt EXCEPT ![j] =
                                           workItems[jobs[j].work_item_id].prompt]
                   /\ pc' = [pc EXCEPT ![w] = "claimUpdate"]
                   /\ loc' = [loc EXCEPT ![w] =
                        [NoLoc EXCEPT
                           !.job_id = j,
                           !.work_item_id = jobs[j].work_item_id,
                           !.project_slug = ProjectSlug,
                           !.work_item_slug = ItemSlug(jobs[j].work_item_id),
                           !.prompt = workItems[jobs[j].work_item_id].prompt,
                           !.brand_content = BrandContentOf(jobs[j].work_item_id),
                           !.payload_json = jobs[j].payload_json]]
                   /\ lastCycle' = lastCycle
    /\ UNCHANGED <<workItems, jobs, runs, runImages, fs, tmpDirs,
                   claimLog, starts, req, crashes, orphans, probe, poll, client>>

\* Mutant: the adjustment text is appended as it was entered.
RunPrompt_RawAdjustment(prompt, adjustment) ==
    IF adjustment # <<>>
    THEN TrimSpace(prompt) \o <<"nl", "nl", "Adjustments:", "nl">> \o adjustment
    ELSE TrimSpace(prompt)

\* strings.TrimSpace(job.Prompt) plus the adjustment, if any
RunPrompt(prompt, adjustment) ==
    IF TrimSpace(adjustment) # <<>>
    THEN TrimSpace(prompt) \o <<"nl", "nl", "Adjustments:", "nl">> \o TrimSpace(adjustment)
    ELSE TrimSpace(prompt)

\* Mutant: the error is returned although the UPDATE took effect.
ClaimUpdate_AppliedThenError(w) ==
    /\ pc[w] = "claimUpdate"
    /\ \E ok \in StmtResults :
         /\ Fault(ok)
         /\ IF ok
            THEN LET payload == WorkerDefaults(Unmarshal(loc[w].payload_json)) IN
                 /\ jobs' = UpdateClaim(jobs, loc[w].job_id)
                 /\ claimLog' = Append(claimLog, loc[w].job_id)
                 /\ pc' = [pc EXCEPT ![w] = "createRun"]
                 /\ loc' = [loc EXCEPT ![w].payload = payload,
                                       ![w].runPrompt =
                                           RunPrompt(loc[w].prompt, payload.adjustment)]
                 /\ lastCycle' = lastCycle
            ELSE /\ jobs' = UpdateClaim(jobs, loc[w].job_id)
                 /\ claimLog' = claimLog
                 /\ pc' = [pc EXCEPT ![w] = "idle"]
                 /\ loc' = [loc EXCEPT ![w] = NoLoc]
                 /\ lastCycle' = lastCycle
    /\ UNCHANGED <<workItems, runs, runImages, fs, tmpDirs, starts, req,
                   claimedPrompt, crashes, orphans, probe, poll, client>>

\* ClaimNextQueuedJob, second statement: the conditional UPDATE; then the
\* context is returned and processNextJob computes payload and runPrompt.
ClaimUpdate(w) ==
    /\ pc[w] = "claimUpdate"
    /\ \E ok \in StmtResults :
         /\ Fault(ok)
         /\ IF ok
            THEN LET payload == WorkerDefaults(Unmarshal(loc[w].payload_json)) IN
                 /\ jobs' = UpdateClaim(jobs, loc[w].job_id)
                 /\ claimLog' = Append(claimLog, loc[w].job_id)
                 /\ pc' = [pc EXCEPT ![w] = "createRun"]
                 /\ loc' = [loc EXCEPT ![w].payload = payload,
                                       ![w].runPrompt =
                                           RunPrompt(loc[w].prompt, payload.adjustment)]
                 /\ lastCycle' = lastCycle
            ELSE /\ jobs' = jobs
                 /\ claimLog' = claimLog
                 /\ pc' = [pc EXCEPT ![w] = "idle"]
                 /\ loc' = [loc EXCEPT ![w] = NoLoc]
                 /\ lastCycle' = lastCycle
    /\ UNCHANGED <<workItems, runs, runImages, fs, tmpDirs, starts, req,
                   claimedPrompt, crashes, orphans, probe, poll, client>>

\* CreateRun, first statement: INSERT INTO runs ... RETURNING id.
CreateRunInsert(w) ==
    /\ pc[w] = "createRun"
    /\ IF ~RunJobIDFree(runs, loc[w].job_id)
       THEN /\ UNCHANGED <<runs, fs, faults>>      \* UNIQUE constraint failed
            /\ Statement(FALSE)
            /\ pc' = [pc EXCEPT ![w] = "markJobFailed"]
            /\ loc' = [loc EXCEPT
                 ![w].msg = <<"sqlite query failed:", "UNIQUE constraint failed: runs.job_id">>,
                 ![w].outcome = "createRun"]
       ELSE \E ok \in StmtResults :
              /\ Fault(ok)
              /\ IF ok
                 THEN /\ runs' = InsertRun(runs, loc[w].job_id, loc[w].work_item_id,
                                           loc[w].runPrompt, Marshal(loc[w].payload))
                      /\ fs' = Append(fs, NoDir)
                      /\ pc' = [pc EXCEPT ![w] = "setRunID"]
                      /\ loc' = [loc EXCEPT ![w].runID = Len(runs) + 1]
                 ELSE /\ UNCHANGED <<runs, fs>>
                      /\ pc' = [pc EXCEPT ![w] = "markJobFailed"]
                      /\ loc' = [loc EXCEPT ![w].msg = <<"sqlite query failed:", "io">>,
                                            ![w].outcome = "createRun"]
    /\ UNCHANGED <<workItems, jobs, runImages, tmpDirs, claimLog,
                   starts, lastCycle, req, claimedPrompt, crashes, orphans, probe, poll, client>>

\* CreateRun, second statement: UPDATE jobs SET run_id. On an error CreateRun
\* returns (0, err) and processNextJob marks only the job.
CreateRunSetRunID(w) ==
    /\ pc[w] = "setRunID"
    /\ \E ok \in StmtResults :
         /\ Fault(ok)
         /\ IF ok
            THEN /\ jobs' = SetJobRunID(jobs, loc[w].job_id, loc[w].runID)
                 /\ pc' = [pc EXCEPT ![w] = "prepare"]
                 /\ loc' = loc
            ELSE /\ jobs' = jobs
                 /\ pc' = [pc EXCEPT ![w] = "markJobFailed"]
                 /\ loc' = [loc EXCEPT ![w].runID = Null,
                                       ![w].msg = <<"sqlite exec failed:", "io">>,
                                       ![w].outcome = "createRun"]
    /\ UNCHANGED <<workItems, runs, runImages, fs, tmpDirs, claimLog, starts,
                   lastCycle, req, claimedPrompt, crashes, orphans, probe, poll, client>>

OutputDir(w) ==
    WorkItemImagesDir(loc[w].project_slug, loc[w].work_item_slug, loc[w].runID)

\* Mutant: the brand directory is made for every job.
HasBrand_Always(w) == TRUE

\* strings.TrimSpace(job.BrandContent) != ""
HasBrand(w) == TrimSpace(loc[w].brand_content) # <<>>

\* The argument vector of the generation subprocess.
Args(w) ==
    <<"generate", "-prompt", loc[w].runPrompt, "-model", loc[w].payload.model,
      "-out", OutputDir(w), "-image-size", loc[w].payload.image_size,
      "-n", loc[w].payload.count, "-output-format", loc[w].payload.output_format>>
    \o (IF loc[w].payload.aspect_ratio # ""
        THEN <<"-aspect-ratio", loc[w].payload.aspect_ratio>> ELSE <<>>)
    \o (IF HasBrand(w) THEN <<"-brand-dir", <<"tmp", w>>>> ELSE <<>>)

\* The temporary directory after os.MkdirTemp, before BRAND.md is written.
EmptyDir == [exists |-> TRUE, files |-> {}]

\* The temporary directory holding BRAND.md with the brand's content.
BrandDir(content) ==
    [exists |-> TRUE, files |-> {[name |-> "BRAND.md", content |-> content]}]

\* Mutant: the cleanup functions are never called.
Cleanup_Skipped(dirs, w) == dirs

\* for _, fn := range cleanup { fn() }: os.RemoveAll(brandDir), if one was made
Cleanup(dirs, w) == [dirs EXCEPT ![w] = NoBrandDir]

\* What os.MkdirAll, os.MkdirTemp and os.WriteFile may do.
PrepareResults(w) ==
    {"ok"} \cup (IF faults < MaxFaults
                 THEN {"mkdirAll"} \cup (IF HasBrand(w) THEN {"mkdirTemp", "writeFile"}
                                         ELSE {})
                 ELSE {})

\* Output directory, temporary brand directory, and the start of the
\* generation subprocess (exec.CommandContext ... CombinedOutput).
PrepareAndStart(w) ==
    /\ pc[w] = "prepare"
    /\ \E res \in PrepareResults(w) :
         /\ fs' = IF res = "mkdirAll" THEN fs ELSE [fs EXCEPT ![loc[w].runID] = Dir({})]
         /\ faults' = IF res = "ok" THEN faults ELSE faults + 1
         /\ IF res = "ok"
            THEN /\ tmpDirs' = [tmpDirs EXCEPT ![w] =
                       IF HasBrand(w) THEN BrandDir(loc[w].brand_content)
                       ELSE NoBrandDir]
                 /\ starts' = [starts EXCEPT ![loc[w].job_id] = @ + 1]
                 /\ pc' = [pc EXCEPT ![w] = "subprocess"]
                 /\ loc' = [loc EXCEPT ![w].args = Args(w)]
            ELSE /\ tmpDirs' = IF res = "writeFile"
                                 THEN [tmpDirs EXCEPT ![w] = EmptyDir]
                                 ELSE tmpDirs
                 /\ starts' = starts
                 /\ pc' = [pc EXCEPT ![w] = "markRunFailed"]
                 /\ loc' = [loc EXCEPT ![w].msg = <<res, "failed">>,
                                       ![w].outcome = res]
    /\ UNCHANGED <<workItems, jobs, runs, runImages, claimLog, lastCycle, req,
                   claimedPrompt, crashes, orphans, mu, probe, poll, client>>

\* fmt.Sprintf("generate failed: %v\n%s", runErr, strings.TrimSpace(output))
FailureMessage(exit, output) ==
    <<"generate failed:", IF exit = "timeout" THEN "signal: killed" ELSE "exit status 1",
      "nl">> \o TrimSpace(output)

\* The subprocess ends (by itself or killed by the 8 minute timeout), the
\* cleanup functions run, and on exit status 0 the output directory is read.
FinishSubprocess(w) ==
    /\ pc[w] = "subprocess"
    /\ \E res \in SubprocessResults, readOK \in BOOLEAN :
         /\ res.exit = "ok" \/ readOK      \* ReadDir runs after exit status 0
         /\ faults < MaxFaults \/ readOK
         /\ faults' = IF readOK THEN faults ELSE faults + 1
         /\ fs' = [fs EXCEPT ![loc[w].runID] = Dir(res.wrote)]
         /\ tmpDirs' = Cleanup(tmpDirs, w)
         /\ IF res.exit # "ok"
            THEN /\ pc' = [pc EXCEPT ![w] = "markRunFailed"]
                 /\ loc' = [loc EXCEPT ![w].msg = FailureMessage(res.exit, res.output),
                                       ![w].outcome = res.exit,
                                       ![w].output = res.output]
            ELSE IF ~readOK
            THEN /\ pc' = [pc EXCEPT ![w] = "markRunFailed"]
                 /\ loc' = [loc EXCEPT ![w].msg = <<"readdir", "failed">>,
                                       ![w].outcome = "readDir"]
            ELSE LET files == Harvestable(Listing(res.wrote, 1)) IN
                 /\ pc' = [pc EXCEPT ![w] =
                       IF files = <<>> THEN "markRunSucceeded" ELSE "harvest"]
                 /\ loc' = [loc EXCEPT ![w].files = files, ![w].outcome = "ok"]
    /\ UNCHANGED <<workItems, jobs, runs, runImages, claimLog, starts,
                   lastCycle, req, claimedPrompt, crashes, orphans, mu, probe, poll, client>>

\* Mutant: the first file that cannot be recorded fails the run.
HarvestFile_AbortOnError(w) ==
    /\ pc[w] = "harvest"
    /\ LET f == Head(loc[w].files)
           rel == RelPath(OutputDir(w) \o <<f.name>>)
           format == TrimDot(ToLower(Ext(f.name))) IN
         \E ok \in StmtResults :
            /\ Fault(ok)
            /\ runImages' = IF rel[1] /\ ok
                            THEN AddRunImage(runImages, loc[w].runID, f.name,
                                             rel[2], format)
                            ELSE runImages
            /\ loc' = [loc EXCEPT ![w].files = Tail(loc[w].files),
                                  ![w].msg = <<"harvest", "failed">>,
                                  ![w].ignoredErr = @ \/ ~(rel[1] /\ ok)]
            /\ pc' = [pc EXCEPT ![w] =
                  IF ~(rel[1] /\ ok) THEN "markRunFailed"
                  ELSE IF Tail(loc[w].files) = <<>> THEN "markRunSucceeded"
                  ELSE "harvest"]
    /\ UNCHANGED <<workItems, jobs, runs, fs, tmpDirs, claimLog, starts,
                   lastCycle, req, claimedPrompt, crashes, orphans, probe, poll, client>>

\* One iteration of the harvesting loop that reaches AddRunImage.
HarvestFile(w) ==
    /\ pc[w] = "harvest"
    /\ LET f == Head(loc[w].files)
           rel == RelPath(OutputDir(w) \o <<f.name>>)
           format == TrimDot(ToLower(Ext(f.name))) IN
         \E ok \in StmtResults :
            /\ Fault(ok)
            /\ runImages' = IF rel[1] /\ ok
                            THEN AddRunImage(runImages, loc[w].runID, f.name,
                                             rel[2], format)
                            ELSE runImages
            /\ loc' = [loc EXCEPT ![w].files = Tail(loc[w].files),
                                  ![w].ignoredErr = @ \/ ~(rel[1] /\ ok)]
    /\ pc' = [pc EXCEPT ![w] =
          IF Tail(loc[w].files) = <<>> THEN "markRunSucceeded" ELSE "harvest"]
    /\ UNCHANGED <<workItems, jobs, runs, fs, tmpDirs, claimLog, starts,
                   lastCycle, req, claimedPrompt, crashes, orphans, probe, poll, client>>

\* _ = s.store.MarkRunSucceeded(runID)
FinishRunSucceeded(w) ==
    /\ pc[w] = "markRunSucceeded"
    /\ \E ok \in StmtResults :
         /\ Fault(ok)
         /\ runs' = IF ok THEN MarkRunSucceeded(runs, loc[w].runID) ELSE runs
         /\ loc' = [loc EXCEPT ![w].ignoredErr = @ \/ ~ok]
    /\ pc' = [pc EXCEPT ![w] = "markJobSucceeded"]
    /\ UNCHANGED <<workItems, jobs, runImages, fs, tmpDirs, claimLog, starts,
                   lastCycle, req, claimedPrompt, crashes, orphans, probe, poll, client>>

\* _ = s.store.MarkJobSucceeded(job.JobID); return
FinishJobSucceeded(w) ==
    /\ pc[w] = "markJobSucceeded"
    /\ \E ok \in StmtResults :
         /\ Fault(ok)
         /\ jobs' = IF ok THEN MarkJobSucceeded(jobs, loc[w].job_id) ELSE jobs
         /\ Return(w, "ok", ok)
    /\ UNCHANGED <<workItems, runs, runImages, fs, tmpDirs, claimLog, starts,
                   req, claimedPrompt, crashes, orphans, probe, poll, client>>

\* _ = s.store.MarkRunFailed(runID, msg)
FinishRunFailed(w) ==
    /\ pc[w] = "markRunFailed"
    /\ \E ok \in StmtResults :
         /\ Fault(ok)
         /\ runs' = IF ok THEN MarkRunFailed(runs, loc[w].runID, loc[w].msg)
                          ELSE runs
         /\ loc' = [loc EXCEPT ![w].ignoredErr = @ \/ ~ok]
    /\ pc' = [pc EXCEPT ![w] = "markJobFailed"]
    /\ UNCHANGED <<workItems, jobs, runImages, fs, tmpDirs, claimLog, starts,
                   lastCycle, req, claimedPrompt, crashes, orphans, probe, poll, client>>

\* _ = s.store.MarkJobFailed(job.JobID, msg); return. After a failed
\* os.WriteFile the cleanup functions run before the return.
FinishJobFailed(w) ==
    /\ pc[w] = "markJobFailed"
    /\ \E ok \in StmtResults :
         /\ Fault(ok)
         /\ jobs' = IF ok THEN MarkJobFailed(jobs, loc[w].job_id, loc[w].msg)
                          ELSE jobs
         /\ Return(w, loc[w].outcome, ok)
    /\ tmpDirs' = IF loc[w].outcome = "writeFile" THEN Cleanup(tmpDirs, w)
                                                  ELSE tmpDirs
    /\ UNCHANGED <<workItems, runs, runImages, fs, claimLog, starts,
                   req, claimedPrompt, crashes, orphans, probe, poll, client>>

(***************************************************************************)
(* Server.handleAPIJobStatus, one store statement per step.                *)
(***************************************************************************)
\* The job ids a client asks for: those of the jobs there may be.
PolledIDs == 1..MaxJobs

\* job, err := s.store.GetJob(jobID); 404 on an error or a missing row
StatusGetJob(jobID) ==
    /\ poll.pc # "images"
    /\ \E ok \in StmtResults :
         /\ Fault(ok)
         /\ poll' = IF ok /\ jobID \in JobIDs
                    THEN [NoPoll EXCEPT !.pc = "images", !.job_id = jobID,
                                        !.status = GetJob(jobs, jobID).status]
                    ELSE [NoPoll EXCEPT !.pc = "done", !.job_id = jobID,
                                        !.code = 404]
    /\ UNCHANGED <<workItems, jobs, runs, runImages, fs, tmpDirs, pc, loc,
                   claimLog, starts, lastCycle, req, claimedPrompt, crashes,
                   orphans, probe>>

\* images, _ := s.store.ListJobImages(jobID); writeJSON(w, http.StatusOK, payload)
StatusListImages ==
    /\ poll.pc = "images"
    /\ \E ok \in StmtResults :
         /\ Fault(ok)
         /\ poll' = [poll EXCEPT !.pc = "done", !.code = 200,
                                 !.images = IF ok THEN ListJobImages(poll.job_id)
                                                  ELSE {}]
    /\ UNCHANGED <<workItems, jobs, runs, runImages, fs, tmpDirs, pc, loc,
                   claimLog, starts, lastCycle, req, claimedPrompt, crashes,
                   orphans, probe, client>>

(***************************************************************************)
(* The browser: the pollers of the work item page and of the job page.     *)
(***************************************************************************)
\* The variables no step of the browser changes.
serverVars ==
    <<workItems, jobs, runs, runImages, fs, tmpDirs, pc, loc, faults, claimLog,
      starts, lastCycle, req, claimedPrompt, crashes, orphans, mu, probe>>

TERMINAL_STATUSES == {"succeeded", "failed"}

\* work-item-detail.ts, submit handler: the POST was answered with res.ok, the
\* answer carrying the job's id and status; pollJob(data.job_id, statusEl).
ItemPageSubmitted ==
    /\ client.pc = "none"
    /\ req.pc = "done"
    /\ req.result = "ok"
    /\ client' = [NoClient EXCEPT !.page = "item", !.pc = "fetch",
                                  !.job_id = req.job.id,
                                  !.initial = req.job.status]
    /\ UNCHANGED <<serverVars, poll>>

\* GET /jobs/{jobID} (handleJobDetail: GetJob, 404 on an error) and the job
\* page's ready handler: no root element without a page, no poller when the
\* status the page carries is terminal, pollJob otherwise. The page is loaded
\* by the user, or again by window.location.reload().
JobPageLoad(jobID) ==
    /\ \/ client.pc = "none"
       \/ client.pc = "reload" /\ jobID = client.job_id
    /\ \E ok \in StmtResults :
         /\ Fault(ok)
         /\ client' =
               IF ~(ok /\ jobID \in JobIDs)
               THEN [client EXCEPT !.page = "detail", !.pc = "stopped",
                                   !.job_id = jobID, !.last = "nonOK"]
               ELSE [client EXCEPT !.page = "detail", !.job_id = jobID,
                                   !.initial = GetJob(jobs, jobID).status,
                                   !.pc = IF GetJob(jobs, jobID).status
                                               \in TERMINAL_STATUSES
                                          THEN "off" ELSE "fetch"]
    /\ UNCHANGED <<workItems, jobs, runs, runImages, fs, tmpDirs, pc, loc,
                   claimLog, starts, lastCycle, req, claimedPrompt, crashes,
                   orphans, probe, poll>>

\* const res = await fetch(`/api/jobs/${jobID}`): the request, and the first
\* statement of the handler that serves it.
PollFetch ==
    /\ client.pc = "fetch"
    /\ client.requests < MaxRequests
    /\ StatusGetJob(client.job_id)
    /\ client' = [client EXCEPT !.pc = "requested", !.requests = @ + 1]

\* work-item-detail.ts, pollJob: the body of the loop after the fetch.
PollAnswerItem(code, status) ==
    IF code # 200 THEN [client EXCEPT !.pc = "stopped", !.last = "nonOK"]
    ELSE IF status \in {"running", "queued"}
    THEN [client EXCEPT !.pc = "delay", !.last = status]
    ELSE IF status \in TERMINAL_STATUSES
    THEN [client EXCEPT !.pc = "stopped", !.last = status]
    ELSE [client EXCEPT !.pc = "delay", !.last = status]

\* The job page's pollJob: the body of the loop after the fetch.
PollAnswerDetail(code, status) ==
    IF code # 200 THEN [client EXCEPT !.pc = "stopped", !.last = "nonOK"]
    ELSE IF status # client.initial
    THEN [client EXCEPT !.pc = "reload", !.last = status]
    ELSE IF status \in TERMINAL_STATUSES
    THEN [client EXCEPT !.pc = "reload", !.last = status]
    ELSE [client EXCEPT !.pc = "delay", !.last = status]

\* The answer of the status request reaches the poller.
PollAnswer ==
    /\ client.pc = "requested"
    /\ poll.pc = "done"
    /\ client' = IF client.page = "item" THEN PollAnswerItem(poll.code, poll.status)
                                         ELSE PollAnswerDetail(poll.code, poll.status)
    /\ UNCHANGED <<serverVars, poll>>

\* await delay(1500): the timer fires and the loop goes round.
PollDelay ==
    /\ client.pc = "delay"
    /\ client' = [client EXCEPT !.pc = "fetch"]
    /\ UNCHANGED <<serverVars, poll>>

(***************************************************************************)
(* Specifications.                                                         *)
(***************************************************************************)
ProcessNextJob(w) ==
    \/ ClaimSelect(w)
    \/ ClaimUpdate(w)
    \/ CreateRunInsert(w)
    \/ CreateRunSetRunID(w)
    \/ PrepareAndStart(w)
    \/ FinishSubprocess(w)
    \/ HarvestFile(w)
    \/ FinishRunSucceeded(w)
    \/ FinishJobSucceeded(w)
    \/ FinishRunFailed(w)
    \/ FinishJobFailed(w)

\* Request handlers call the store from any number of goroutines.
Enqueue == \E e \in Enqueues, t \in InsertTimes : CreateGenerateJob(e[1], e[2], t)

EnqueueReturn == CreateGenerateJobReturn

EditPrompt == \E e \in PromptEdits : UpdateWorkItemPrompt(e[1], e[2])

\* The program as it runs: NewServer starts exactly one jobWorkerLoop.
Next == Enqueue \/ EnqueueReturn \/ EditPrompt \/ ProcessNextJob(MainWorker)

Spec == Init /\ [][Next]_vars

\* The process is killed at any point and started again: NewServer calls
\* NewStore, which runs the CREATE TABLE IF NOT EXISTS migrations and nothing
\* else, and starts a new worker loop. A call in flight gets no reply; the
\* killed cycle's temporary directory is no longer any cycle's.
Restart ==
    /\ crashes < MaxCrashes
    /\ crashes' = crashes + 1
    /\ orphans' = orphans \cup {j \in JobIDs : jobs[j].status = "running"}
    /\ pc' = [w \in Workers |-> "idle"]
    /\ loc' = [w \in Workers |-> NoLoc]
    /\ lastCycle' = [w \in Workers |-> NoCycle]
    /\ tmpDirs' = [w \in Workers |-> NoBrandDir]
    /\ req' = NoReq
    /\ mu' = "free"                 \* NewStore: a new Store, a new mutex
    /\ UNCHANGED <<workItems, jobs, runs, runImages, fs, faults, claimLog,
                   starts, claimedPrompt, probe, poll, client>>

NextCrash == Next \/ Restart

SpecCrash == Init /\ [][NextCrash]_vars

\* The program while every sqlite3 invocation and file-system call succeeds,
\* with the worker loop ticking and every subprocess ending (by itself or
\* killed when the 8 minute context expires).
Reliable == faults' = faults

NextReliable ==
    \/ Enqueue /\ Reliable
    \/ EnqueueReturn /\ Reliable
    \/ EditPrompt /\ Reliable
    \/ ProcessNextJob(MainWorker) /\ Reliable

SpecLive ==
    /\ Init
    /\ [][NextReliable]_vars
    /\ WF_vars(ProcessNextJob(MainWorker) /\ Reliable)

\* The program with clients asking for the status of jobs.
JobStatus == (\E j \in PolledIDs : StatusGetJob(j)) /\ UNCHANGED client

JobStatusImages == StatusListImages

NextPoll ==
    Enqueue \/ EnqueueReturn \/ JobStatus \/ JobStatusImages
       \/ ProcessNextJob(MainWorker)

SpecPoll == Init /\ [][NextPoll]_vars

\* The program with one browser: the form of work item "icon" is submitted,
\* and the work item page or the job page polls a job.
SubmitForm == \E t \in InsertTimes : CreateGenerateJob("icon", EmptyPayload, t)

JobPage == \E j \in PolledIDs : JobPageLoad(j)

NextClient ==
    \/ SubmitForm
    \/ EnqueueReturn
    \/ ProcessNextJob(MainWorker)
    \/ ItemPageSubmitted
    \/ JobPage
    \/ PollFetch
    \/ JobStatusImages
    \/ PollAnswer
    \/ PollDelay

SpecClient == Init /\ [][NextClient]_vars

\* Several worker instances claiming from the same store.
NextMulti == Enqueue \/ EnqueueReturn \/ \E w \in Workers : ProcessNextJob(w)

SpecMulti == Init /\ [][NextMulti]_vars

\* The brand columns of ClaimNextQueuedJob's SELECT on their own, for every
\* brands table of two rows (brands.content is NOT NULL, and may be empty),
\* every work_items.brand_id and every projects.default_brand_id.
BrandContents == {<<>>, <<"a">>, <<"b">>}
BrandTables ==
    { << [slug |-> "b1", content |-> c1], [slug |-> "b2", content |-> c2] >> :
        c1 \in BrandContents, c2 \in BrandContents }
BrandRefs == {Null, 1, 2}

InitBrand ==
    /\ InitTables
    /\ probe \in { [NoProbe EXCEPT !.pc = "joined", !.brands = t, !.brand_id = o,
                                   !.default_brand_id = d] :
                      t \in BrandTables, o \in BrandRefs, d \in BrandRefs }

SelectBrandColumns ==
    /\ probe.pc = "joined"
    /\ LET r == ResolveBrand(probe.brands, probe.brand_id, probe.default_brand_id) IN
         probe' = [probe EXCEPT !.pc = "done", !.brand_slug = r.brand_slug,
                                !.brand_content = r.brand_content]
    /\ UNCHANGED <<workItems, jobs, runs, runImages, fs, tmpDirs, pc, loc,
                   faults, claimLog, starts, lastCycle, req, claimedPrompt,
                   crashes, orphans, mu, poll, client>>

NextBrand == SelectBrandColumns

SpecBrand == InitBrand /\ [][NextBrand]_vars

(***************************************************************************)
(* Claims.                                                                 *)
(***************************************************************************)
TimesClaimed(j) == Cardinality({i \in DOMAIN claimLog : claimLog[i] = j})
RunsOfJob(j) == {r \in RunIDs : runs[r].job_id = j}
ImagesOfRun(r) == {i \in DOMAIN runImages : runImages[i].run_id = r}

\* C1: claim exclusivity. Of any number of concurrent ClaimNextQueuedJob
\* calls, at most one returns the execution context of a given job; the others
\* return "no job available".
C1_ClaimExclusivity == \A j \in JobIDs : TimesClaimed(j) <= 1

\* C2: with several workers on the same store, the generation subprocess is
\* started at most once for any job, and no two run rows have the same job_id.
C2_ExecutedAtMostOnce ==
    /\ \A j \in JobIDs : starts[j] <= 1
    /\ \A r1, r2 \in RunIDs : r1 # r2 => runs[r1].job_id # runs[r2].job_id

\* C2's case: two workers have claimed the same job and its subprocess has
\* been started.
C2_Witness == \E j \in JobIDs : TimesClaimed(j) >= 2 /\ starts[j] = 1

\* C3: with the one worker loop and any number of enqueue and prompt-edit
\* calls, every change of a job's status is queued -> running,
\* running -> succeeded or running -> failed.
C3_LegalTransitions ==
    [][\A j \in JobIDs :
          jobs'[j].status # jobs[j].status =>
              << jobs[j].status, jobs'[j].status >> \in
                  { <<"queued", "running">>, <<"running", "succeeded">>,
                    <<"running", "failed">> }]_vars

\* C3's case: one job has gone all the way to succeeded and another to
\* failed, with a prompt edit in between.
C3_Witness ==
    /\ \E j \in JobIDs : jobs[j].status = "succeeded"
    /\ \E j \in JobIDs : jobs[j].status = "failed"
    /\ workItems[1].prompt # InitialPrompt

\* C4: once a job's status is succeeded or failed it never changes again,
\* also when more than one worker instance claims concurrently.
C4_TerminalIsFinal ==
    [][\A j \in JobIDs :
          jobs[j].status \in Terminal => jobs'[j].status = jobs[j].status]_vars

\* C5: FIFO ordering. Successive claims never return a job created strictly
\* later before a job created strictly earlier, however the enqueue calls
\* interleave with each other and with the worker.
C5_FIFO ==
    \A i, k \in DOMAIN claimLog :
        i < k => jobs[claimLog[i]].created_at <= jobs[claimLog[k]].created_at

\* C5's case: two jobs with creation times t1 < t2 have both been claimed, the
\* earlier one first, and both cycles have finished.
C5_Witness ==
    /\ Len(claimLog) = 2
    /\ jobs[claimLog[1]].created_at < jobs[claimLog[2]].created_at
    /\ \A j \in JobIDs : jobs[j].status \in Terminal

\* C6: of queued jobs with the same created_at, the one inserted first (the
\* lowest id) is claimed before the others.
C6_TieBreakByInsertion ==
    \A i, k \in DOMAIN claimLog :
        (i < k /\ jobs[claimLog[i]].created_at = jobs[claimLog[k]].created_at)
            => claimLog[i] < claimLog[k]

\* The cycle a worker has last completed after claiming a job.
Returned(w) == pc[w] = "idle" /\ lastCycle[w].job # Null

\* C7: whenever processNextJob returns after having claimed a job, that job is
\* succeeded or failed and any run created for it is succeeded or failed,
\* whichever step of the cycle failed.
C7_CycleEndsTerminal ==
    Returned(MainWorker) =>
        LET j == lastCycle[MainWorker].job IN
        /\ jobs[j].status \in Terminal
        /\ \A r \in RunsOfJob(j) : runs[r].status \in Terminal

\* C8: if the subprocess exits non-zero or its timeout fires, the run and the
\* job are both marked failed with a message containing the captured combined
\* output (trimmed of surrounding white space), and no run image is recorded
\* for the run, even if the subprocess wrote files before failing.
C8_SubprocessFailure ==
    (Returned(MainWorker) /\ lastCycle[MainWorker].outcome \in {"exit1", "timeout"}) =>
        LET c == lastCycle[MainWorker] IN
        /\ runs[c.run].status = "failed"
        /\ jobs[c.job].status = "failed"
        /\ Contains(runs[c.run].error_message, TrimSpace(c.output))
        /\ Contains(jobs[c.job].error_message, TrimSpace(c.output))
        /\ ImagesOfRun(c.run) = {}

\* The names of the entries of Pool that are regular files with the extension
\* png, jpg, jpeg, webp or ico in any letter case.
RecognisedNames == { <<"a", ".png">>, <<"b", ".JPG">> }
NamesIn(dir) == { Pool[i].name : i \in dir }

\* C9: if the subprocess exits 0 and the store writes succeed, exactly one run
\* image is recorded for each recognised file directly inside the output
\* directory and none for any other entry; the run and the job are then both
\* succeeded, and polling the job returns succeeded with as many images.
C9_HarvestOnSuccess ==
    (/\ Returned(MainWorker)
     /\ lastCycle[MainWorker].outcome = "ok"
     /\ ~lastCycle[MainWorker].ignoredErr) =>
        LET c == lastCycle[MainWorker]
            expected == NamesIn(fs[c.run].entries) \cap RecognisedNames IN
        /\ \A n \in expected :
              Cardinality({i \in ImagesOfRun(c.run) : runImages[i].filename = n}) = 1
        /\ \A i \in ImagesOfRun(c.run) : runImages[i].filename \in expected
        /\ runs[c.run].status = "succeeded"
        /\ jobs[c.job].status = "succeeded"
        /\ Cardinality(ListJobImages(c.job)) = Cardinality(expected)

\* C9's case: a cycle has returned after a subprocess that exited 0 and left
\* recognised files, other files and a directory behind.
C9_Witness ==
    /\ Returned(MainWorker)
    /\ lastCycle[MainWorker].outcome = "ok"
    /\ ~lastCycle[MainWorker].ignoredErr
    /\ fs[lastCycle[MainWorker].run] = Dir({1, 2, 3, 4})
    /\ Cardinality(ImagesOfRun(lastCycle[MainWorker].run)) = 2

\* C10: run uniqueness. CreateRun for a job that already has a run fails,
\* inserts no run row, and leaves the runs table and every job's run_id as
\* they were.
C10_RunUniqueness ==
    [][\A w \in Workers :
          (/\ pc[w] = "createRun"
           /\ pc'[w] # "createRun"
           /\ RunsOfJob(loc[w].job_id) # {}) =>
              /\ pc'[w] = "markJobFailed"
              /\ loc'[w].runID = Null
              /\ runs' = runs
              /\ \A j \in JobIDs : jobs'[j].run_id = jobs[j].run_id]_vars

\* C10's case: CreateRun has just failed on the UNIQUE constraint for a job
\* whose run exists.
C10_Witness ==
    \E w \in Workers :
        /\ pc[w] = "markJobFailed"
        /\ loc[w].msg = <<"sqlite query failed:", "UNIQUE constraint failed: runs.job_id">>
        /\ RunsOfJob(loc[w].job_id) # {}

\* C11: in every reachable state each job has at most one run, and every run
\* belongs to a job that is running, succeeded or failed: no run exists for a
\* job that is still queued.
C11_RunOnlyAfterClaim ==
    /\ \A j \in JobIDs : Cardinality(RunsOfJob(j)) <= 1
    /\ \A r \in RunIDs :
          /\ runs[r].job_id \in JobIDs
          /\ jobs[runs[r].job_id].status \in {"running", "succeeded", "failed"}

\* C11's case: a run exists for a job two workers have claimed, while another
\* job is still queued and has none.
C11_Witness ==
    /\ \E r \in RunIDs : TimesClaimed(runs[r].job_id) = 2
    /\ \E j \in JobIDs : jobs[j].status = "queued" /\ RunsOfJob(j) = {}

\* The adjustment text stored with job j.
AdjustmentOf(j) == WithDefaults(Unmarshal(jobs[j].payload_json)).adjustment

\* C12: snapshot isolation. Whatever prompt edits follow a job's claim, the
\* prompt_snapshot of its run and the prompt passed to its subprocess are the
\* prompt the claim read (trimmed, plus the job's adjustment text).
C12_SnapshotIsolation ==
    /\ \A r \in RunIDs :
          runs[r].prompt_snapshot =
              RunPrompt(claimedPrompt[runs[r].job_id], AdjustmentOf(runs[r].job_id))
    /\ pc[MainWorker] = "subprocess" =>
          /\ loc[MainWorker].args[2] = "-prompt"
          /\ loc[MainWorker].args[3] =
                RunPrompt(claimedPrompt[loc[MainWorker].job_id],
                          AdjustmentOf(loc[MainWorker].job_id))

\* C12's case: the work item's prompt was edited after the claim read it, and
\* the job's subprocess is running or has succeeded with its run recorded.
C12_Witness ==
    \E r \in RunIDs :
        /\ jobs[runs[r].job_id].status \in {"running", "succeeded"}
        /\ starts[runs[r].job_id] = 1
        /\ workItems[runs[r].work_item_id].prompt # claimedPrompt[runs[r].job_id]

\* The slugs of the work items that exist.
KnownSlugs == { ItemSlug(wi) : wi \in WorkItemIDs }

\* C13: a CreateGenerateJob call for a slug that matches no work item inserts
\* no job row, leaves the result of ListJobs unchanged, and returns the
\* not-found error (whenever the lookup statement itself ran).
C13_EnqueueNotFound ==
    [][(/\ req' # req
        /\ req'.pc \in {"get", "done"}
        /\ req'.slug \notin KnownSlugs) =>
           /\ req'.pc = "done"
           /\ jobs' = jobs
           /\ \A limit \in Limits : ListJobs(jobs', limit) = ListJobs(jobs, limit)
           /\ faults' = faults => req'.result = "notFound"]_vars

\* C13's case: a call for a slug that matches no work item has returned
\* not-found while the jobs table holds a row.
C13_Witness ==
    /\ req.pc = "done"
    /\ req.slug \notin KnownSlugs
    /\ req.result = "notFound"
    /\ Len(jobs) = 1

\* C14: the Job value a successful CreateGenerateJob returns has status
\* queued, no started_at, no finished_at and no run_id, also when a worker
\* cycle runs concurrently with the call.
C14_ReturnedJobIsQueued ==
    (req.pc = "done" /\ req.result = "ok") =>
        /\ req.job.status = "queued"
        /\ req.job.started_at = Null
        /\ req.job.finished_at = Null
        /\ req.job.run_id = Null

\* The settings the generator accepts (its -model and -image-size flags) and
\* the output formats the worker's harvest recognises.
Models == {"google", "openai", "both"}
ImageSizes == {"1K", "2K", "4K"}
OutputFormats == {"png", "jpg", "jpeg", "webp", "ico"}

\* Settings with a count below 1 or an empty or unknown model selector,
\* output format or image size.
Malformed(p) ==
    \/ p.count < 1
    \/ p.model \notin Models
    \/ p.output_format \notin OutputFormats
    \/ p.image_size \notin ImageSizes

\* C15: a CreateGenerateJob call with malformed settings fails at enqueue
\* time and creates no job row.
C15_MalformedSettingsRejected ==
    (req.pc # "none" /\ Malformed(req.payload)) =>
        /\ req.pc = "done"
        /\ req.id = Null
        /\ req.result # "ok"

ClaimFails(w) ==
    \/ pc[w] = "idle" /\ ClaimSelect(w) /\ faults' # faults
    \/ pc[w] = "claimUpdate" /\ pc'[w] = "idle"

\* C17: if ClaimNextQueuedJob returns an error, the worker is back waiting
\* for its next tick, the cycle has written nothing to the store, and every
\* job that was queued is still queued, so that a later tick selects it.
C17_ClaimErrorSkipsCycle ==
    [][ClaimFails(MainWorker) =>
          /\ pc'[MainWorker] = "idle"
          /\ jobs' = jobs
          /\ runs' = runs
          /\ runImages' = runImages
          /\ workItems' = workItems
          /\ OldestQueued(jobs') = OldestQueued(jobs)]_vars

\* C17's case: the claim's UPDATE failed after its SELECT had found a queued
\* job; the worker is idle again and the job is still queued.
C17_Witness ==
    /\ pc[MainWorker] = "idle"
    /\ faults = 1
    /\ \E j \in JobIDs : jobs[j].status = "queued" /\ claimedPrompt[j] # <<>>

\* C18: liveness. While the process keeps running, store operations succeed
\* and the worker loop keeps ticking, every job that is enqueued eventually
\* has status succeeded or failed, which is what a client polling GetJob then
\* reads.
C18_EveryJobFinishes ==
    \A j \in 1..MaxJobs :
        (j \in JobIDs) ~> (j \in JobIDs /\ GetJob(jobs, j).status \in Terminal)

\* C18's case: two jobs were enqueued; one was ended by the subprocess
\* timeout, the other by a subprocess that exited 0.
C18_Witness ==
    /\ Len(jobs) = 2
    /\ \E j \in JobIDs : jobs[j].status = "succeeded"
    /\ \E j \in JobIDs :
          /\ jobs[j].status = "failed"
          /\ jobs[j].error_message = TrimSpace(FailureMessage("timeout", <<>>))

\* C19: with the single worker loop, cycles never overlap. As long as no
\* store or file-system call has failed, a job that is running is the one
\* the worker's current cycle holds, so at most one job is running.
C19_OneCycleAtATime ==
    faults = 0 =>
        /\ \A j \in JobIDs :
              jobs[j].status = "running" =>
                  pc[MainWorker] # "idle" /\ loc[MainWorker].job_id = j
        /\ Cardinality({j \in JobIDs : jobs[j].status = "running"}) <= 1

\* C19's case: a job waits in the queue while the subprocess of another one
\* runs.
C19_Witness ==
    /\ faults = 0
    /\ pc[MainWorker] = "subprocess"
    /\ jobs[loc[MainWorker].job_id].status = "running"
    /\ \E j \in JobIDs : jobs[j].status = "queued"

\* C20: a job that was running when the process was killed stays running for
\* ever after the restart, and so does its run: no later step changes the
\* job's row or a run of it, starts its subprocess or hands it to the worker;
\* and the oldest queued job is still what the next claim selects.
C20_OrphanStaysRunning ==
    [][\A j \in orphans :
          /\ jobs[j].status = "running"
          /\ jobs'[j] = jobs[j]
          /\ starts'[j] = starts[j]
          /\ \A r \in 1..Len(runs') :
                runs'[r].job_id = j => r \in RunIDs /\ runs'[r] = runs[r]
          /\ loc'[MainWorker].job_id # j
          /\ (\E q \in JobIDs : jobs[q].status = "queued") =>
                 /\ OldestQueued(jobs) # {}
                 /\ OldestQueued(jobs) \cap orphans = {}]_vars

\* C20's case: the process was killed while a job's subprocess had been
\* started; after the restart a job enqueued later has succeeded and the
\* first one is still running.
C20_Witness ==
    /\ faults = 0
    /\ crashes = 1
    /\ \E j \in orphans, k \in JobIDs :
          /\ j < k
          /\ starts[j] = 1
          /\ RunsOfJob(j) # {}
          /\ jobs[j].status = "running"
          /\ jobs[k].status = "succeeded"

\* C21: an enqueue never waits for job execution. Between two statements
\* nobody holds Store.mu, so whatever the worker is doing (its subprocess
\* included) a new CreateGenerateJob call can run its statements, a call in
\* flight can run its last one and the worker can take its next step; and a
\* job inserted while the subprocess runs is queued and leaves the worker
\* where it is.
C21_EnqueueNeverWaits ==
    /\ [](/\ mu = "free"
          /\ (Len(jobs) < MaxJobs /\ req.pc # "get") => ENABLED Enqueue
          /\ req.pc = "get" => ENABLED EnqueueReturn
          /\ ENABLED ProcessNextJob(MainWorker))
    /\ [][(pc[MainWorker] = "subprocess" /\ Len(jobs') > Len(jobs)) =>
            /\ jobs'[Len(jobs')].status = "queued"
            /\ pc'[MainWorker] = "subprocess"
            /\ req'.pc = "get"]_vars

\* A CreateGenerateJob call has inserted its job and is about to read it back
\* while the worker's subprocess for another job is running.
C21_Witness ==
    /\ pc[MainWorker] = "subprocess"
    /\ req.pc = "get"
    /\ req.id # loc[MainWorker].job_id
    /\ jobs[req.id].status = "queued"
    /\ ENABLED EnqueueReturn

\* C22: when no job is queued, the SELECT of ClaimNextQueuedJob finds no row:
\* the worker stays between two cycles with nothing claimed, and every job,
\* run and run-image row is as it was.
C22_NothingQueued ==
    [][(/\ pc[MainWorker] = "idle"
        /\ \A j \in JobIDs : jobs[j].status # "queued"
        /\ ClaimSelect(MainWorker)) =>
          /\ pc'[MainWorker] = "idle"
          /\ loc' = loc
          /\ claimLog' = claimLog
          /\ jobs' = jobs
          /\ runs' = runs
          /\ runImages' = runImages]_vars

\* The worker's ticker fires while jobs exist and none of them is queued.
C22_Witness ==
    /\ pc[MainWorker] = "idle"
    /\ Len(jobs) = MaxJobs
    /\ \A j \in JobIDs : jobs[j].status # "queued"
    /\ \E j \in JobIDs : jobs[j].status = "running"
    /\ ENABLED ClaimSelect(MainWorker)

\* C23: existing job rows are changed only by the worker. No step removes a
\* job, run or run-image row or gives a row another key, and a step of
\* CreateGenerateJob (its INSERT or its GetJob) or of UpdateWorkItemPrompt
\* leaves every existing job row and every run and run-image row as it was.
C23_OnlyWorkerMutates ==
    [][/\ Len(jobs') >= Len(jobs)
       /\ Len(runs') >= Len(runs)
       /\ Len(runImages') >= Len(runImages)
       /\ \A j \in JobIDs : jobs'[j].id = jobs[j].id
       /\ \A r \in RunIDs : runs'[r].job_id = runs[r].job_id
       /\ \A i \in DOMAIN runImages : runImages'[i].run_id = runImages[i].run_id
       /\ (Enqueue \/ EnqueueReturn \/ EditPrompt) =>
             /\ \A j \in JobIDs : jobs'[j] = jobs[j]
             /\ runs' = runs
             /\ runImages' = runImages]_vars

\* A second job of a work item has been inserted, and its GetJob is pending,
\* while the first job of that work item is finished with its run and images.
C23_Witness ==
    /\ req.pc = "get"
    /\ req.id = 2
    /\ jobs[1].work_item_id = jobs[2].work_item_id
    /\ jobs[1].status = "succeeded"
    /\ Len(runs) = 1
    /\ Len(runImages) = 2

\* C24: every run-image row references a run that exists, and a run-image
\* row, once inserted, is never updated or deleted: the rows only grow.
C24_RunImagesAppendOnly ==
    /\ [](\A i \in DOMAIN runImages : runImages[i].run_id \in RunIDs)
    /\ [][/\ Len(runImages') >= Len(runImages)
          /\ \A i \in DOMAIN runImages : runImages'[i] = runImages[i]]_vars

\* Two runs have each recorded their two images.
C24_Witness ==
    /\ Len(runs) = 2
    /\ Len(runImages) = 4
    /\ \A r \in RunIDs : Cardinality(ImagesOfRun(r)) = 2

\* C25: the brand content of a claimed job's context is the content of the
\* work item's override brand when the work item has one, otherwise that of
\* the project's default brand, otherwise empty; and the brand slug of the
\* context is the slug of that same brand.
C25_BrandResolution ==
    probe.pc = "done" =>
        LET b == IF probe.brand_id # Null THEN probe.brand_id
                 ELSE probe.default_brand_id IN
        IF b = Null
        THEN probe.brand_content = <<>> /\ probe.brand_slug = ""
        ELSE /\ probe.brand_content = probe.brands[b].content
             /\ probe.brand_slug = probe.brands[b].slug

\* The work item overrides the project's default brand with another brand of
\* different content, and the row has been read.
C25_Witness ==
    /\ probe.pc = "done"
    /\ probe.brand_id = 2
    /\ probe.default_brand_id = 1
    /\ probe.brands[1].content = <<"a">>
    /\ probe.brands[2].content = <<>>
    /\ probe.brand_content = <<>>
    /\ probe.brand_slug = "b2"

\* C26: harvesting is best-effort per file. After a cycle whose subprocess
\* exited 0, every recognised file that has no run image stands for one
\* recording that failed, so the other files were recorded; and when the
\* failed recordings are the only failures there were, the run and the job are
\* succeeded.
C26_HarvestBestEffort ==
    (Returned(MainWorker) /\ lastCycle[MainWorker].outcome = "ok") =>
        LET c == lastCycle[MainWorker]
            expected == NamesIn(fs[c.run].entries) \cap RecognisedNames
            recorded == { runImages[i].filename : i \in ImagesOfRun(c.run) }
            missing == Cardinality(expected \ recorded) IN
        /\ recorded \subseteq expected
        /\ missing <= faults
        /\ missing = faults =>
              /\ runs[c.run].status = "succeeded"
              /\ jobs[c.job].status = "succeeded"

\* Recording a.png failed; b.JPG was recorded all the same and the run and
\* the job are succeeded.
C26_Witness ==
    /\ Returned(MainWorker)
    /\ lastCycle[MainWorker].outcome = "ok"
    /\ lastCycle[MainWorker].ignoredErr
    /\ { runImages[i].filename : i \in ImagesOfRun(lastCycle[MainWorker].run) }
          = { <<"b", ".JPG">> }
    /\ runs[lastCycle[MainWorker].run].status = "succeeded"
    /\ jobs[lastCycle[MainWorker].job].status = "succeeded"

\* The limits and the work item names the lists are asked with.
ListLimits == {-1, 0, 1, 2}
ListItems == {"icon", "Logo!", "missing"}
NewestFirst(r) ==
    \A a, b \in DOMAIN r : a < b => jobs[r[a].id].created_at >= jobs[r[b].id].created_at
Smaller(a, b) == IF a < b THEN a ELSE b

\* C27: ListJobs and ListJobsForWorkItem return jobs newest first, as many as
\* there are but never more than the limit; a limit <= 0 stands for 50, and
\* for 10 in the list of a work item; the list of a work item holds jobs of
\* that work item only.
C27_ListsNewestFirst ==
    \A limit \in ListLimits :
        /\ \A r \in ListJobs(jobs, limit) :
              /\ NewestFirst(r)
              /\ Len(r) = Smaller(Len(jobs), IF limit <= 0 THEN 50 ELSE limit)
        /\ limit <= 0 => ListJobs(jobs, limit) = ListJobs(jobs, 50)
        /\ \A item \in ListItems :
              LET own == { j \in JobIDs :
                             ItemSlug(jobs[j].work_item_id) = Slugify(item) } IN
              /\ ListJobsForWorkItem(jobs, "demo", item, limit) # {}
              /\ \A r \in ListJobsForWorkItem(jobs, "demo", item, limit) :
                    /\ NewestFirst(r)
                    /\ Len(r) = Smaller(Cardinality(own),
                                        IF limit <= 0 THEN 10 ELSE limit)
                    /\ \A a \in DOMAIN r : r[a].id \in own
              /\ limit <= 0 => ListJobsForWorkItem(jobs, "demo", item, limit)
                                  = ListJobsForWorkItem(jobs, "demo", item, 10)

\* Two jobs of different work items inserted at different instants: a limit
\* of 1 cuts the global list to the newer job, and each work item lists its own.
C27_Witness ==
    /\ Len(jobs) = 2
    /\ jobs[1].created_at < jobs[2].created_at
    /\ jobs[1].work_item_id # jobs[2].work_item_id
    /\ \A r \in ListJobs(jobs, 1) : Len(r) = 1 /\ r[1].id = 2
    /\ \A r \in ListJobs(jobs, 0) : Len(r) = 2 /\ r[1].id = 2
    /\ \A r \in ListJobsForWorkItem(jobs, "demo", "Logo!", 0) :
          Len(r) = 1 /\ jobs[r[1].id].work_item_id = 2

\* The positions of the flag names in the argument vector: "generate", then
\* pairs of a flag and its value.
FlagPositions(args) == { i \in DOMAIN args : i % 2 = 0 /\ i < Len(args) }

\* C28: while the subprocess runs, its arguments hold -brand-dir if and only
\* if the job's brand content is not blank, and the directory the argument
\* names then holds exactly one file, BRAND.md, with that brand content;
\* without the argument there is no such directory.
C28_BrandDirArgument ==
    pc[MainWorker] = "subprocess" =>
        LET args == loc[MainWorker].args
            content == loc[MainWorker].brand_content
            passed == \E i \in FlagPositions(args) : args[i] = "-brand-dir" IN
        /\ passed <=> TrimSpace(content) # <<>>
        /\ passed =>
              /\ \E i \in FlagPositions(args) :
                    /\ args[i] = "-brand-dir"
                    /\ args[i + 1] = <<"tmp", MainWorker>>
              /\ tmpDirs[MainWorker].exists
              /\ tmpDirs[MainWorker].files
                    = {[name |-> "BRAND.md", content |-> content]}
        /\ ~passed => ~tmpDirs[MainWorker].exists

\* One subprocess has been started with a brand directory, and now one is
\* running for a job without a brand.
C28_Witness ==
    /\ pc[MainWorker] = "subprocess"
    /\ loc[MainWorker].brand_content = <<>>
    /\ \A i \in FlagPositions(loc[MainWorker].args) :
          loc[MainWorker].args[i] # "-brand-dir"
    /\ \E j \in JobIDs : jobs[j].work_item_id = 1 /\ jobs[j].status = "succeeded"

\* The output directory of a run, relative to the data root.
RunDir(r) ==
    <<"images", ProjectSlug, ItemSlug(runs[r].work_item_id), <<"run", r>>>>

\* C29: every run image's stored path is relative to the data root and names
\* a file directly inside images/{project-slug}/{work-item-slug}/run-{run-id}
\* of the run the row references; the file is one that run's directory holds,
\* and no two runs have the same directory.
C29_ImagePathUnderRunDir ==
    /\ \A i \in DOMAIN runImages :
          LET r == runImages[i].run_id IN
          /\ runImages[i].rel_path = RunDir(r) \o <<runImages[i].filename>>
          /\ SubSeq(runImages[i].rel_path, 1, Len(Root)) # Root
          /\ fs[r].exists
          /\ runImages[i].filename \in NamesIn(fs[r].entries)
    /\ \A r1, r2 \in RunIDs : r1 # r2 => RunDir(r1) # RunDir(r2)

\* Two runs of the same work item have each recorded a.png, under different
\* directories.
C29_Witness ==
    /\ Len(runs) = 2
    /\ runs[1].work_item_id = runs[2].work_item_id
    /\ \E i, k \in DOMAIN runImages :
          /\ runImages[i].run_id = 1
          /\ runImages[k].run_id = 2
          /\ runImages[i].filename = runImages[k].filename
          /\ runImages[i].rel_path # runImages[k].rel_path

\* C30: job ids are assigned by the store at the INSERT, are unique, and
\* strictly increase in insertion order, also for inserts at the same instant;
\* a job keeps its id, and the id of a new job is larger than every id there
\* is and is the one the call goes on with.
C30_JobIDsIncrease ==
    /\ [](\A a, b \in JobIDs : a < b => jobs[a].id < jobs[b].id)
    /\ [][/\ \A j \in JobIDs : jobs'[j].id = jobs[j].id
          /\ Len(jobs') > Len(jobs) =>
                /\ Len(jobs') = Len(jobs) + 1
                /\ \A j \in JobIDs : jobs[j].id < jobs'[Len(jobs')].id
                /\ req'.id = jobs'[Len(jobs')].id]_vars

\* Two CreateGenerateJob calls have inserted their jobs at the same instant,
\* the first of them already processed.
C30_Witness ==
    /\ Len(jobs) = 2
    /\ jobs[1].created_at = jobs[2].created_at
    /\ jobs[1].id = 1
    /\ jobs[2].id = 2
    /\ jobs[1].status \in Terminal
    /\ req.id = 2

\* C31: whenever the status endpoint answers succeeded for a job, the images
\* of that response are all the run-image rows of the job's run.
C31_SucceededHasAllImages ==
    (poll.pc = "done" /\ poll.code = 200 /\ poll.status = "succeeded") =>
        ListJobImages(poll.job_id) \subseteq poll.images

\* The file-system calls of processNextJob whose failure fails the run.
FileSystemFailures == {"mkdirAll", "mkdirTemp", "writeFile", "readDir"}
FileSystemMessages ==
    { <<"mkdirAll", "failed">>, <<"mkdirTemp", "failed">>,
      <<"writeFile", "failed">>, <<"readdir", "failed">> }
\* The runs a file-system call has failed for.
FileSystemFailedRuns ==
    { loc[w].runID : w \in {v \in Workers : loc[v].outcome \in FileSystemFailures} }
       \cup { r \in RunIDs : runs[r].error_message \in FileSystemMessages }
\* No sqlite3 invocation has failed: every failure was one of the file system.
StoreWritesSucceeded == faults = Cardinality(FileSystemFailedRuns)

\* C32: with one worker and no store statement failing, a succeeded job has a
\* run and that run is succeeded, a failed job's run is failed, and no job is
\* succeeded or failed while its run is still running.
C32_StatusesAgree ==
    StoreWritesSucceeded =>
        \A j \in JobIDs :
            /\ jobs[j].status = "succeeded" =>
                  /\ jobs[j].run_id \in RunIDs
                  /\ runs[jobs[j].run_id].job_id = j
                  /\ runs[jobs[j].run_id].status = "succeeded"
            /\ jobs[j].status = "failed" =>
                  \A r \in RunsOfJob(j) : runs[r].status = "failed"
            /\ jobs[j].status \in Terminal =>
                  \A r \in RunsOfJob(j) : runs[r].status \in Terminal

\* One job succeeded and one failed after os.MkdirAll failed, each with its
\* run in the same status, no store statement having failed.
C32_Witness ==
    /\ StoreWritesSucceeded
    /\ faults = 1
    /\ \E j, k \in JobIDs :
          /\ jobs[j].status = "succeeded"
          /\ jobs[k].status = "failed"
          /\ RunsOfJob(j) # {} /\ RunsOfJob(k) # {}
          /\ \A r \in RunsOfJob(k) : runs[r].status = "failed"

\* C33: with one worker and no store statement failing, a job has started_at
\* set exactly when it is not queued, finished_at set exactly when it is
\* succeeded or failed, and an error message only when it is failed.
C33_TimestampsMatchStatus ==
    StoreWritesSucceeded =>
        \A j \in JobIDs :
            /\ jobs[j].started_at # Null <=> jobs[j].status # "queued"
            /\ jobs[j].finished_at # Null <=> jobs[j].status \in Terminal
            /\ jobs[j].error_message # <<>> => jobs[j].status = "failed"

\* A failed job with its message and both timestamps next to a running job
\* that has started_at only.
C33_Witness ==
    /\ StoreWritesSucceeded
    /\ Len(jobs) = 2
    /\ jobs[1].status = "failed"
    /\ jobs[1].error_message # <<>>
    /\ jobs[1].started_at = Set /\ jobs[1].finished_at = Set
    /\ jobs[2].status = "running"
    /\ jobs[2].started_at = Set /\ jobs[2].finished_at = Null

\* C34: a job's run_id, when set, names a run that exists, that has this job
\* as its job_id and the job's work item as its work_item_id; and a run_id,
\* once set, never changes.
C34_RunIDConsistent ==
    /\ [](\A j \in JobIDs :
             jobs[j].run_id # Null =>
                /\ jobs[j].run_id \in RunIDs
                /\ runs[jobs[j].run_id].job_id = j
                /\ runs[jobs[j].run_id].work_item_id = jobs[j].work_item_id)
    /\ [][\A j \in JobIDs :
             jobs[j].run_id # Null => jobs'[j].run_id = jobs[j].run_id]_vars

\* Two jobs of different work items, each with the run_id of its own run.
C34_Witness ==
    /\ Len(jobs) = 2
    /\ jobs[1].work_item_id # jobs[2].work_item_id
    /\ jobs[1].run_id # Null
    /\ jobs[2].run_id # Null
    /\ jobs[1].run_id # jobs[2].run_id

\* The prompt of job j's run as the claim describes it: the trimmed prompt the
\* claim read, then the adjustment block when the job's adjustment is not blank.
SnapshotOf(j) ==
    LET base == TrimSpace(claimedPrompt[j])
        adj == TrimSpace(Unmarshal(jobs[j].payload_json).adjustment) IN
    IF adj = <<>> THEN base
    ELSE base \o <<"nl", "nl", "Adjustments:", "nl">> \o adj

\* C35: the prompt_snapshot of a run is the -prompt argument of that run's
\* subprocess, and is the trimmed work item prompt read at claim time,
\* followed by "\n\nAdjustments:\n" and the trimmed adjustment text exactly
\* when the adjustment is not blank.
C35_SnapshotIsPromptArgument ==
    /\ \A r \in RunIDs :
          /\ runs[r].prompt_snapshot = SnapshotOf(runs[r].job_id)
          /\ Contains(runs[r].prompt_snapshot, <<"Adjustments:">>)
                <=> TrimSpace(Unmarshal(jobs[runs[r].job_id].payload_json).adjustment) # <<>>
    /\ pc[MainWorker] = "subprocess" =>
          loc[MainWorker].args[3] = runs[loc[MainWorker].runID].prompt_snapshot

\* The subprocess of a job whose adjustment was entered with leading white
\* space runs.
C35_Witness ==
    /\ pc[MainWorker] = "subprocess"
    /\ Unmarshal(jobs[loc[MainWorker].job_id].payload_json).adjustment = <<"sp", "adj">>
    /\ loc[MainWorker].args[3] = <<"p", "nl", "nl", "Adjustments:", "nl", "adj">>
    /\ runs[loc[MainWorker].runID].prompt_snapshot = loc[MainWorker].args[3]

\* Payloads a caller may pass to CreateGenerateJob: each setting empty or
\* given, the count negative, zero or positive.
Payloads ==
    { [model |-> m, count |-> c, output_format |-> f, image_size |-> z,
       aspect_ratio |-> "", adjustment |-> <<>>] :
        m \in {"", "google"}, c \in {-1, 0, 1, 2}, f \in {"", "webp"},
        z \in {"", "2K"} }

\* C36: the settings snapshot of a run equals the stored payload of its job:
\* the worker's defaulting changes nothing in a payload that went through the
\* defaulting of CreateGenerateJob, gives what that one gives on the payloads
\* callers pass, and applying it twice is applying it once.
C36_SettingsEqualPayload ==
    /\ \A r \in RunIDs : runs[r].settings_json = jobs[runs[r].job_id].payload_json
    /\ \A w \in Workers :
          pc[w] \notin {"idle", "claimUpdate"} =>
              Marshal(loc[w].payload) = jobs[loc[w].job_id].payload_json
    /\ \A p \in Payloads :
          /\ WorkerDefaults(p) = WithDefaults(p)
          /\ WorkerDefaults(WorkerDefaults(p)) = WorkerDefaults(p)
          /\ WorkerDefaults(Unmarshal(Marshal(WithDefaults(p)))) = WithDefaults(p)

\* Runs exist for a job enqueued with every setting empty and for one
\* enqueued with every setting given.
C36_Witness ==
    /\ Len(runs) = 2
    /\ runs[1].settings_json # runs[2].settings_json
    /\ \E r \in RunIDs : runs[r].settings_json = Marshal(WithDefaults(EmptyPayload))
    /\ \E r \in RunIDs : runs[r].settings_json = Marshal(FullPayload)

\* C37: a poller goes on requesting the job status while the answers are OK
\* with status queued or running (it stops only on a terminal status or on an
\* answer that is not OK, and its timer and its next request are never
\* blocked); once it has stopped it issues no further request; and a request
\* is issued only for a job whose initial status was not terminal.
C37_PollUntilTerminal ==
    /\ [](/\ client.pc = "stopped" => client.last \in TERMINAL_STATUSES \cup {"nonOK"}
          /\ client.pc = "delay" => ENABLED PollDelay
          /\ (client.pc = "fetch" /\ client.requests < MaxRequests) => ENABLED PollFetch)
    /\ [][/\ client.pc \in {"stopped", "off"} => client' = client
          /\ client'.requests > client.requests =>
                client.initial \notin TERMINAL_STATUSES]_vars

\* ------------------------------------------------------------------------
\* The generator command (main.go): its command line.

\* The flags main defines, as they are written on a command line.
DefinedFlags ==
    {"-prompt", "-brand-dir", "-model", "-out", "-image-size", "-aspect-ratio", "-n"}

\* The arguments that begin with "-" among those a worker passes; "generate"
\* does not.
DashArguments == DefinedFlags \cup {"-output-format"}

\* No flag has been seen: each flag is mapped to the position of its value.
NoneSeen == [f \in DefinedFlags |-> 0]

\* flag.Parse from position i on. Every flag main defines takes a value, the
\* next argument. Parsing ends at the first argument that does not begin
\* with "-"; a flag that is not defined, or one without a value, is an error
\* (the command prints its usage and exits with status 2).
RECURSIVE FlagParse(_, _, _)
FlagParse(args, i, seen) ==
    IF i > Len(args) THEN [err |-> "", seen |-> seen, rest |-> i]
    ELSE IF args[i] \notin DashArguments THEN [err |-> "", seen |-> seen, rest |-> i]
    ELSE IF args[i] \notin DefinedFlags
         THEN [err |-> "flag provided but not defined", seen |-> seen, rest |-> i]
    ELSE IF i = Len(args)
         THEN [err |-> "flag needs an argument", seen |-> seen, rest |-> i]
    ELSE FlagParse(args, i + 2, [seen EXCEPT ![args[i]] = i + 1])

\* flag.Parse() of main: the whole command line after the program's name.
Parse(args) == FlagParse(args, 1, NoneSeen)

\* main's check of -prompt after parsing: the default is the empty string,
\* and a blank prompt ends the command with "-prompt is required".
PromptGiven(args) ==
    /\ Parse(args).seen["-prompt"] # 0
    /\ TrimSpace(args[Parse(args).seen["-prompt"]]) # <<>>

\* The value option f has after parsing is the worker's value v.
Reaches(args, f, v) ==
    /\ Parse(args).seen[f] # 0
    /\ args[Parse(args).seen[f]] = v

\* C38: the argument vector a worker builds is accepted by the generator's
\* parser: parsing it is no error, every flag in it is one main defines, and
\* the worker's prompt, model, output directory, image size and count are
\* the values of -prompt, -model, -out, -image-size and -n.
C38_ArgumentsAccepted ==
    pc[MainWorker] = "subprocess" =>
        LET args == loc[MainWorker].args IN
        /\ Parse(args).err = ""
        /\ \A i \in FlagPositions(args) : args[i] \in DefinedFlags
        /\ PromptGiven(args)
        /\ Reaches(args, "-prompt", loc[MainWorker].runPrompt)
        /\ Reaches(args, "-model", loc[MainWorker].payload.model)
        /\ Reaches(args, "-out", OutputDir(MainWorker))
        /\ Reaches(args, "-image-size", loc[MainWorker].payload.image_size)
        /\ Reaches(args, "-n", loc[MainWorker].payload.count)
====
